---- MODULE Spec2Model ----
(***************************************************************************)
(* Model of src/app.py: the Flask route /proxy, which issues one GET to a  *)
(* fixed feed URL and relays status and body, or answers 500 when the      *)
(* outbound call (or anything else inside the try block) raises.           *)
(*                                                                         *)
(* A request is a task of the threaded server started by app.run.  Its     *)
(* position is pc[r]: "Idle" (not yet received), "Pending" (blocked in     *)
(* requests.get), "Succeeded" (line 13 returned), "Failed" (line 19        *)
(* returned) or "Propagated" (an exception left the handler).              *)
(*                                                                         *)
(* Text is a sequence of Unicode code points, a body on the wire a         *)
(* sequence of bytes (0..255).                                             *)
(***************************************************************************)
EXTENDS Integers, Sequences, FiniteSets, TLC

VARIABLES pc, upstream, resp, calls

vars == <<pc, upstream, resp, calls>>

\* ---------------------------------------------------------------- bounds

NumRequests == 2

Requests == 1..NumRequests

\* ------------------------------------------------------- the environment

\* Upstream bodies (r.content), as bytes:
\*   empty; "<>" (ASCII); U+00E9 (one two-byte sequence); "<", U+00E9, ">";
\*   a lone continuation byte then a lead byte cut off by the end;
\*   a lead byte followed by ASCII; a lead byte followed by U+00E9.
\* The last three are not valid UTF-8.
Bodies ==
    { <<>>,
      <<60, 62>>,
      <<195, 169>>,
      <<60, 195, 169, 62>>,
      <<169, 195>>,
      <<195, 60>>,
      <<195, 195, 169>> }

\* Status codes the upstream answers with: a 2xx, a 3xx that is not a
\* redirect, and a 5xx that coincides with the handler's own error status.
UpstreamStatuses == {200, 304, 500}

NoHeader == "<absent>"
UpstreamContentTypes == {NoHeader, "text/xml"}

Refused == <<114, 101, 102, 117, 115, 101, 100>>      \* "refused"

\* What requests.get raises: the exception's class and its str().
Exceptions ==
    { [exc |-> "ConnectionError", desc |-> Refused],
      [exc |-> "ChunkedEncodingError", desc |-> <<>>] }

NoOutcome == [kind |-> "none"]

UpstreamResponses ==
    { [kind |-> "response", status |-> s, content_type |-> c, content |-> b] :
        s \in UpstreamStatuses, c \in UpstreamContentTypes, b \in Bodies }

UpstreamFailures ==
    { [kind |-> "exception", exc |-> e.exc, desc |-> e.desc] : e \in Exceptions }

\* ------------------------------------------------------ the fixed request

FeedUrl == "https://natesnewsletter.substack.com/feed"
UserAgent == "Mozilla/5.0"

\* Variant: the call made without headers=headers.
OutboundRequestDefaultAgent ==
    [method |-> "GET", url |-> FeedUrl, user_agent |-> "python-requests"]

OutboundRequest ==
    [method |-> "GET", url |-> FeedUrl, user_agent |-> UserAgent]

\* -------------------------------------------------------------- decoding

ReplacementChar == 65533

IsContinuation(b) == b >= 128 /\ b <= 191
IsLead2(b) == b >= 194 /\ b <= 223

\* bytes.decode('utf-8', errors) over ASCII, two-byte leads and continuation
\* bytes.  An invalid byte is one U+FFFD under "replace" and raises
\* UnicodeDecodeError under "strict".
RECURSIVE Utf8Decode(_, _)
Utf8Decode(b, errors) ==
    IF b = <<>> THEN [raised |-> FALSE, text |-> <<>>]
    ELSE LET h == Head(b)
             two == IsLead2(h) /\ Len(b) >= 2 /\ IsContinuation(b[2])
             valid == h < 128 \/ two
             cp == IF h < 128 THEN h
                   ELSE IF two THEN (h - 192) * 64 + (b[2] - 128)
                   ELSE ReplacementChar
             rest == Utf8Decode(SubSeq(b, IF two THEN 3 ELSE 2, Len(b)), errors)
         IN IF ~valid /\ errors = "strict" THEN [raised |-> TRUE, text |-> <<>>]
            ELSE IF rest.raised THEN rest
            ELSE [raised |-> FALSE, text |-> <<cp>> \o rest.text]

\* bytes.decode('ISO-8859-1'): every byte is the code point of its value.
Latin1Decode(b) == [raised |-> FALSE, text |-> b]

Decode(b, encoding, errors) ==
    IF encoding = "utf-8" THEN Utf8Decode(b, errors) ELSE Latin1Decode(b)

\* str.encode('utf-8'), what Response does with a str body.
RECURSIVE Utf8Encode(_)
Utf8Encode(t) ==
    IF t = <<>> THEN <<>>
    ELSE LET c == Head(t)
             enc == IF c < 128 THEN <<c>>
                    ELSE IF c < 2048 THEN <<192 + (c \div 64), 128 + (c % 64)>>
                    ELSE <<224 + (c \div 4096), 128 + ((c \div 64) % 64), 128 + (c % 64)>>
         IN enc \o Utf8Encode(Tail(t))

\* ----------------------------------------------------------- the handler

\* r.encoding after line 12.
ResponseEncoding(u) == "utf-8"

\* Variant: a strict decoder, which raises on an invalid byte.
DecodeErrorsStrict == "strict"

\* The error handling r.text decodes with.
DecodeErrors == "replace"

\* r.text
ResponseText(u) == Decode(u.content, ResponseEncoding(u), DecodeErrors)

XmlContentType == "application/xml; charset=utf-8"

\* Content type of a Response built without content_type or mimetype.
DefaultContentType == "text/html; charset=utf-8"

ErrorStatus == 500

ErrorPrefix ==
    <<69, 114, 114, 111, 114, 32, 102, 101, 116, 99, 104, 105, 110, 103, 32,
      102, 101, 101, 100, 58, 32>>                     \* "Error fetching feed: "

NoResponse == [kind |-> "none"]

MakeResponse(text, status, content_type) ==
    [kind |-> "response", status |-> status, content_type |-> content_type,
     text |-> text, data |-> Utf8Encode(text)]

\* Variant: Response built without status=, which defaults to 200.
SuccessStatusDefault(u) == 200

SuccessStatus(u) == u.status

\* Variant: the upstream's Content-Type handed on, application/xml if absent.
SuccessContentTypePassThrough(u) ==
    IF u.content_type = NoHeader THEN "application/xml" ELSE u.content_type

SuccessContentType(u) == XmlContentType

\* Variant: the body accumulated in a buffer shared by all requests.
SuccessResponseSharedBuffer(u, text) ==
    LET done == {q \in Requests : pc[q] = "Succeeded"}
        earlier == IF done = {} THEN <<>> ELSE resp[CHOOSE q \in done : TRUE].text
    IN MakeResponse(earlier \o text, SuccessStatus(u), SuccessContentType(u))

\* lines 13-17
SuccessResponse(u, text) ==
    MakeResponse(text, SuccessStatus(u), SuccessContentType(u))

\* f'Error fetching feed: {e}'
ErrorBody(e) == ErrorPrefix \o e.desc

\* line 19
ErrorResponse(e) == MakeResponse(ErrorBody(e), ErrorStatus, DefaultContentType)

\* Variant: except requests.ConnectionError.
CatchesOnlyConnectionError(e) == e.exc = "ConnectionError"

\* except Exception: every exception of the try block is an Exception.
Catches(e) == TRUE

\* lines 18-19
ExceptResult(e) ==
    IF Catches(e) THEN [pc |-> "Failed", resp |-> ErrorResponse(e)]
    ELSE [pc |-> "Propagated", resp |-> NoResponse]

UnicodeDecodeError == [exc |-> "UnicodeDecodeError", desc |-> <<>>]

\* lines 10-19, from the outcome of requests.get on
ProxyResult(o) ==
    IF o.kind = "exception" THEN ExceptResult(o)
    ELSE LET t == ResponseText(o)
         IN IF t.raised THEN ExceptResult(UnicodeDecodeError)
            ELSE [pc |-> "Succeeded", resp |-> SuccessResponse(o, t.text)]

\* Variant: a server that handles one request at a time.
ThreadedOff == FALSE

\* app.run serves every request in a thread of its own.
Threaded == TRUE

\* Variant: a failed call is awaited again (a retry).
AwaitingUpstreamOrFailed(r) == pc[r] \in {"Pending", "Failed"}

\* Variant: the call completes only while no other request is in its own.
AwaitingUpstreamExclusive(r) ==
    pc[r] = "Pending" /\ \A q \in Requests \ {r} : pc[q] # "Pending"

\* The task is blocked in requests.get (line 11).
AwaitingUpstream(r) == pc[r] = "Pending"

\* ------------------------------------------------------------ the system

Init ==
    /\ pc = [r \in Requests |-> "Idle"]
    /\ upstream = [r \in Requests |-> NoOutcome]
    /\ resp = [r \in Requests |-> NoResponse]
    /\ calls = [r \in Requests |-> <<>>]

\* GET /proxy arrives; lines 8-11 issue the outbound call and block.
Start(r) ==
    /\ pc[r] = "Idle"
    /\ Threaded \/ \A q \in Requests : pc[q] # "Pending"
    /\ pc' = [pc EXCEPT ![r] = "Pending"]
    /\ calls' = [calls EXCEPT ![r] = Append(@, OutboundRequest)]
    /\ UNCHANGED <<upstream, resp>>

Complete(r, o) ==
    /\ AwaitingUpstream(r)
    /\ LET result == ProxyResult(o)
       IN /\ upstream' = [upstream EXCEPT ![r] = o]
          /\ pc' = [pc EXCEPT ![r] = result.pc]
          /\ resp' = [resp EXCEPT ![r] = result.resp]
    /\ UNCHANGED calls

\* requests.get returns a response; lines 12-17.
UpstreamRespond(r) == \E o \in UpstreamResponses : Complete(r, o)

\* requests.get raises; lines 18-19.
UpstreamFail(r) == \E o \in UpstreamFailures : Complete(r, o)

UpstreamOutcome(r) == UpstreamRespond(r) \/ UpstreamFail(r)

Next ==
    \E r \in Requests :
        \/ Start(r)
        \/ UpstreamRespond(r)
        \/ UpstreamFail(r)

Spec == Init /\ [][Next]_vars

\* The upstream eventually responds or errors on every call.
FairSpec == Spec /\ \A r \in Requests : WF_vars(UpstreamOutcome(r))

\* ------------------------------------------------------------ properties

Terminal == {"Succeeded", "Failed"}

IsPrefix(p, t) == Len(p) <= Len(t) /\ SubSeq(t, 1, Len(p)) = p
IsSuffix(p, t) == Len(p) <= Len(t) /\ SubSeq(t, Len(t) - Len(p) + 1, Len(t)) = p
Chars(t) == {t[i] : i \in 1..Len(t)}

ValidUtf8(b) == ~Utf8Decode(b, "strict").raised

\* C1: whenever the outbound call returned a response, whatever its status,
\* the request succeeded, the outbound status is the upstream status, the
\* body is not the error message, and a valid UTF-8 upstream body goes out
\* byte for byte.
StatusRelayed ==
    \A r \in Requests :
        upstream[r].kind = "response" =>
            /\ pc[r] = "Succeeded"
            /\ resp[r].status = upstream[r].status
            /\ ~IsPrefix(ErrorPrefix, resp[r].text)
            /\ ValidUtf8(upstream[r].content) => resp[r].data = upstream[r].content

StatusRelayedWitness ==
    \E r \in Requests :
        /\ pc[r] = "Succeeded"
        /\ upstream[r].status = 500
        /\ upstream[r].content = <<195, 169>>
        /\ resp[r].status = 500

\* C2: whenever the outbound call raised, the handler returned (nothing
\* propagated) status 500 with a non-empty body that starts with
\* "Error fetching feed: " and ends with the exception's description.
FailureCaught ==
    \A r \in Requests :
        upstream[r].kind = "exception" =>
            /\ pc[r] = "Failed"
            /\ resp[r].status = 500
            /\ Len(resp[r].text) > 0
            /\ IsPrefix(ErrorPrefix, resp[r].text)
            /\ IsSuffix(upstream[r].desc, resp[r].text)
            /\ Len(resp[r].text) = Len(ErrorPrefix) + Len(upstream[r].desc)

FailureCaughtWitness ==
    /\ \E r \in Requests :
        /\ upstream[r].kind = "exception" /\ upstream[r].desc = Refused
        /\ pc[r] = "Failed"
    /\ \E r \in Requests :
        /\ upstream[r].kind = "exception" /\ upstream[r].exc = "ChunkedEncodingError"
        /\ pc[r] = "Failed"

\* C3: whenever the outbound call returned a response, the outbound content
\* type is exactly application/xml; charset=utf-8, whether the upstream
\* declared a content type or none.
ContentTypeFixed ==
    \A r \in Requests :
        upstream[r].kind = "response" =>
            resp[r].content_type = "application/xml; charset=utf-8"

ContentTypeFixedWitness ==
    /\ \E r \in Requests :
        pc[r] = "Succeeded" /\ upstream[r].content_type = "text/xml"
    /\ \E r \in Requests :
        pc[r] = "Succeeded" /\ upstream[r].content_type = NoHeader

\* C4: when the outbound call fails, the response is presented as plain
\* text (content type text/plain), not as XML or another markup type.
ErrorResponseIsPlainText ==
    \A r \in Requests :
        pc[r] = "Failed" =>
            resp[r].content_type \in {"text/plain", "text/plain; charset=utf-8"}

\* C5: an upstream body that is not valid UTF-8 never makes the handler
\* fail: the request succeeds with the upstream status and the XML content
\* type, and the body is the UTF-8 decoding of the upstream body with every
\* invalid byte replaced by U+FFFD.
InvalidUtf8Tolerated ==
    \A r \in Requests :
        (upstream[r].kind = "response" /\ ~ValidUtf8(upstream[r].content)) =>
            /\ pc[r] = "Succeeded"
            /\ resp[r].status = upstream[r].status
            /\ resp[r].content_type = XmlContentType
            /\ resp[r].text = Utf8Decode(upstream[r].content, "replace").text
            /\ ReplacementChar \in Chars(resp[r].text)

InvalidUtf8ToleratedWitness ==
    \E r \in Requests :
        /\ pc[r] = "Succeeded"
        /\ upstream[r].content = <<169, 195>>
        /\ resp[r].text = <<65533, 65533>>
        /\ resp[r].data = <<239, 191, 189, 239, 191, 189>>

\* C6: a request that has been received has issued exactly one outbound
\* call, a GET of the fixed feed URL with User-Agent Mozilla/5.0; neither a
\* failure nor a non-2xx status adds a second one.
ExactlyOneCall ==
    \A r \in Requests :
        /\ pc[r] = "Idle" => calls[r] = <<>>
        /\ pc[r] # "Idle" =>
            calls[r] = << [method |-> "GET",
                           url |-> "https://natesnewsletter.substack.com/feed",
                           user_agent |-> "Mozilla/5.0"] >>

ExactlyOneCallWitness ==
    /\ \E r \in Requests : pc[r] = "Failed" /\ Len(calls[r]) = 1
    /\ \E r \in Requests :
        pc[r] = "Succeeded" /\ upstream[r].status = 500 /\ Len(calls[r]) = 1

\* C7: any two requests whose outbound calls had the same outcome got the
\* same outbound response (status, body and content type), whichever
\* finished first.
Idempotent ==
    \A r1, r2 \in Requests :
        (pc[r1] \in Terminal /\ pc[r2] \in Terminal /\ upstream[r1] = upstream[r2]) =>
            resp[r1] = resp[r2]

IdempotentWitness ==
    \E r1, r2 \in Requests :
        /\ r1 # r2
        /\ pc[r1] = "Succeeded" /\ pc[r2] = "Succeeded"
        /\ upstream[r1] = upstream[r2]
        /\ upstream[r1].content = <<195, 169>>
        /\ resp[r1] = resp[r2]

\* C8: a Pending request moves only to Succeeded or Failed; a request in
\* Succeeded or Failed never changes state or response again; and a request
\* holds a response exactly when it is in Succeeded or Failed.
TwoStateMachine ==
    [][\A r \in Requests :
        /\ pc[r] = "Idle" => pc'[r] \in {"Idle", "Pending"}
        /\ pc[r] = "Pending" => pc'[r] \in {"Pending", "Succeeded", "Failed"}
        /\ pc[r] \in Terminal => (pc'[r] = pc[r] /\ resp'[r] = resp[r])
        /\ (resp'[r] # NoResponse) <=> (pc'[r] \in Terminal)
        /\ pc'[r] = "Failed" => upstream'[r].kind = "exception"
        /\ pc'[r] = "Succeeded" => upstream'[r].kind = "response"]_vars

TwoStateMachineWitness ==
    /\ \E r \in Requests : pc[r] = "Succeeded" /\ resp[r] # NoResponse
    /\ \E r \in Requests : pc[r] = "Failed" /\ resp[r] # NoResponse

\* C9: if the upstream eventually responds or errors on every call, every
\* Pending request eventually reaches Succeeded or Failed; and a request
\* leaves Pending only by an outcome of its outbound call.
EventuallyTerminal ==
    /\ \A r \in Requests : (pc[r] = "Pending") ~> (pc[r] \in Terminal)
    /\ [][\A r \in Requests :
            (pc[r] = "Pending" /\ pc'[r] # "Pending") =>
                (upstream[r] = NoOutcome /\ upstream'[r] # NoOutcome)]_vars

EventuallyTerminalWitness ==
    \E r1, r2 \in Requests :
        /\ pc[r1] = "Pending" /\ upstream[r1] = NoOutcome
        /\ pc[r2] \in Terminal

\* C10: a step of one request leaves every other request's state, outcome,
\* response and calls as they were, and no request waits for another: an
\* Idle request can always start and a Pending one can always complete.
Isolated ==
    [][\A r \in Requests :
        /\ pc'[r] # pc[r] =>
            \A q \in Requests \ {r} :
                /\ pc'[q] = pc[q]
                /\ upstream'[q] = upstream[q]
                /\ resp'[q] = resp[q]
                /\ calls'[q] = calls[q]
        /\ pc[r] = "Idle" => ENABLED Start(r)
        /\ pc[r] = "Pending" => ENABLED UpstreamOutcome(r)]_vars

IsolatedWitness ==
    \E r1, r2 \in Requests :
        /\ pc[r1] \in {"Pending", "Failed"}
        /\ pc[r2] = "Succeeded"

====
